---------------------------- MODULE Spec2Model ----------------------------
(***************************************************************************)
(* Model of django_private_chat2's ChatConsumer (consumers.py): one        *)
(* websocket consumer per connection, a channel layer with one group per   *)
(* user, and the message store.  Every await of a handler that changes     *)
(* shared state is one step of the model; handlers of different            *)
(* connections interleave at these steps, handlers of one connection run   *)
(* one after the other (the consumer's dispatch loop).                     *)
(***************************************************************************)
EXTENDS Integers, Sequences, FiniteSets, TLC

(* ------------------------------ bounds --------------------------------- *)
\* total number of inbound frames the clients send in one behaviour
MaxFrames == 2
\* number of frames of one behaviour of the validation scenario
MaxFramesV == 1
\* number of rows the message table can hold when the consumers start
MaxSeed == 3
\* number of text messages alice sends to bob in the read-receipt scenario
MaxN == 2
\* number of frames of one behaviour of the delivery scenario
MaxFramesD == 1
\* number of frames of one behaviour of the receipt scenario
MaxFramesR == 1
\* frames received in the in-flight scenario
MaxFramesF == 2

(* --------------------------- program constants ------------------------- *)
\* settings.TEXT_MAX_LENGTH as configured for the model (default 65535)
TEXT_MAX_LENGTH == 2
\* close code of a rejected (unauthenticated) connection
AUTH_CLOSE_CODE == 4001

\* ErrorTypes
MessageParsingError == 1
TextMessageInvalid == 2
InvalidMessageReadId == 3
InvalidUserPk == 4
InvalidRandomId == 5
FileMessageInvalid == 6
FileDoesNotExist == 7

\* MessageTypes
WentOnline == 1
WentOffline == 2
TextMessage == 3
FileMessage == 4
IsTyping == 5
MessageRead == 6
ErrorOccurred == 7
MessageIdCreated == 8
NewUnreadCount == 9
TypingStopped == 10
Heartbeat == 11

MessageTypes == 1..11

(* ------------------------------ the world ------------------------------ *)
\* UserModel rows: primary key -> username.  Anonymous is scope["user"] of a
\* connection without a login (is_authenticated = False).
Users == {1, 2, 3}
Anonymous == 0
Username == [u \in Users |-> CASE u = 1 -> "alice" [] u = 2 -> "bob" [] OTHER -> "carol"]

\* str(pk): the group of a user is named by the decimal form of its pk
ToStr(n) == CASE n = 0 -> "0" [] n = 1 -> "1" [] n = 2 -> "2" [] n = 3 -> "3" [] OTHER -> "?"
Groups == {ToStr(u) : u \in Users}

\* UploadedFile rows (ids of the files that exist)
Files == {"f1"}

\* connections; scope["user"] of each; channel_name is the connection itself
Sessions == {"s1", "s2", "s3", "s4"}
ScopeUser == [s \in Sessions |->
                CASE s = "s1" -> 1 [] s = "s2" -> 1 [] s = "s3" -> 2 [] OTHER -> Anonymous]

\* faulty variant: the default of pid is evaluated once, every row gets the same
PidConstant(n) == "p1"

\* the pid (uuid4) the store gives to the n-th row it creates
Pid(n) == CASE n = 1 -> "p1" [] n = 2 -> "p2" [] n = 3 -> "p3" [] n = 4 -> "p4"
            [] n = 5 -> "p5" [] OTHER -> "p6"

NoUser == 0
NoMsg == "none"

(* ------------------------- JSON values of a frame ---------------------- *)
\* A field of the inbound JSON object: t is its JSON/Python type ("absent" when the
\* key is missing), s its string value, n its integer value (True = 1, False = 0),
\* len the length of a string value.
JAbsent == [t |-> "absent", s |-> "", n |-> 0, len |-> 0]
JStr(x, l) == [t |-> "str", s |-> x, n |-> 0, len |-> l]
JInt(k) == [t |-> "int", s |-> "", n |-> k, len |-> 0]
JBool(b) == [t |-> "bool", s |-> "", n |-> IF b THEN 1 ELSE 0, len |-> 0]
JFloat == [t |-> "float", s |-> "", n |-> 0, len |-> 0]
JNull == [t |-> "null", s |-> "", n |-> 0, len |-> 0]
\* a JSON array of l elements (a JSON object of l keys behaves alike: it has a
\* len() and is no str)
JArr(l) == [t |-> "array", s |-> "", n |-> 0, len |-> l]

\* a username as a JSON string
JName(n) == JStr(n, CASE n = "bob" -> 3 [] n = "nobody" -> 6 [] OTHER -> 5)

\* key in data
Has(v) == v.t # "absent"
\* isinstance(v, str)
IsStr(v) == v.t = "str"
\* len(v) is defined: a str, a list or a dict
HasLen(v) == v.t \in {"str", "array"}
\* isinstance(v, int): bool is a subclass of int
IsInt(v) == v.t \in {"int", "bool"}

(* ------------------------------- frames -------------------------------- *)
\* One inbound websocket frame.  env is "object" when json.loads gives a JSON
\* object and "malformed" when it raises JSONDecodeError; the other fields are the
\* keys of the object the handlers read.
Frame(mt, upk, text, rid, fileid, mid) ==
    [env |-> "object", msg_type |-> mt, user_pk |-> upk, text |-> text,
     random_id |-> rid, file_id |-> fileid, message_id |-> mid]

MalformedFrame ==
    [env |-> "malformed", msg_type |-> JAbsent, user_pk |-> JAbsent, text |-> JAbsent,
     random_id |-> JAbsent, file_id |-> JAbsent, message_id |-> JAbsent]

NoFrame ==
    [env |-> "none", msg_type |-> JAbsent, user_pk |-> JAbsent, text |-> JAbsent,
     random_id |-> JAbsent, file_id |-> JAbsent, message_id |-> JAbsent]

\* a text of the given length
TextOfLen(l) == JStr(CASE l = 0 -> "" [] l = 1 -> "a" [] l = 2 -> "ab" [] l = 3 -> "abc"
                       [] OTHER -> "abcd", l)

UserPkVals == {JName("alice"), JName("bob"), JName("nobody"), JInt(1), JAbsent}
TextVals == {TextOfLen(l) : l \in 0..(TEXT_MAX_LENGTH + 1)}
               \cup {JInt(5), JArr(1), JArr(TEXT_MAX_LENGTH + 1), JAbsent}
RandomIdVals == {JInt(-1), JInt(0), JInt(1), JBool(TRUE), JBool(FALSE),
                 JStr("-1", 2), JFloat, JAbsent}
FileIdVals == {JStr("f1", 2), JStr("f9", 2), JStr("", 0), JInt(1), JAbsent}
\* pids of rows that exist or not, a string that is no UUID, and a non-string
MessageIdVals == {JStr(Pid(n), 2) : n \in 1..(MaxSeed + 1)}
                    \cup {JStr("x", 1), JInt(1), JAbsent}

TextFrames == {Frame(JInt(TextMessage), u, t, r, JAbsent, JAbsent) :
                 u \in UserPkVals, t \in TextVals, r \in RandomIdVals}
FileFrames == {Frame(JInt(FileMessage), u, JAbsent, r, f, JAbsent) :
                 u \in UserPkVals, r \in RandomIdVals, f \in FileIdVals}
ReadFrames == {Frame(JInt(MessageRead), u, JAbsent, JAbsent, JAbsent, m) :
                 u \in UserPkVals, m \in MessageIdVals}
TypingFrames == {Frame(JInt(k), u, JAbsent, JAbsent, JAbsent, JAbsent) :
                 k \in {IsTyping, TypingStopped}, u \in UserPkVals}
OtherFrames == {Frame(mt, JAbsent, JAbsent, JAbsent, JAbsent, JAbsent) :
                 mt \in {JInt(WentOnline), JInt(WentOffline), JInt(ErrorOccurred),
                         JInt(MessageIdCreated), JInt(NewUnreadCount), JInt(Heartbeat),
                         JInt(12), JStr("3", 1), JAbsent}}
                 \cup {MalformedFrame}

AllFrames == TextFrames \cup FileFrames \cup ReadFrames \cup TypingFrames \cup OtherFrames

\* the frames of the clients that exchange messages: texts and files that are
\* accepted, and read receipts for the first messages of the table
CoreFrames ==
    {Frame(JInt(TextMessage), JName(n), TextOfLen(1), JInt(-1), JAbsent, JAbsent) :
        n \in {"alice", "bob"}}
    \cup {Frame(JInt(FileMessage), JName("bob"), JAbsent, JInt(-1), JStr("f1", 2), JAbsent)}
    \cup {Frame(JInt(MessageRead), JName(n), JAbsent, JAbsent, JAbsent, JStr(Pid(1), 2)) :
        n \in {"alice", "bob"}}

(* ------------------------------ the store ------------------------------ *)
\* UserModel.objects.filter(username=username).first()
get_user_by_username(username) ==
    IF \E u \in Users : Username[u] = username
    THEN CHOOSE u \in Users : Username[u] = username
    ELSE NoUser

\* UploadedFile.objects.filter(id=file_id).first(), None on ValidationError
get_file_by_id(file_id) == IF file_id \in Files THEN file_id ELSE ""

\* a MessageModel row
Row(pid, from, to, text, file, rid) ==
    [pid |-> pid, sender |-> from, recipient |-> to, read |-> FALSE,
     text |-> text, file |-> file, random_id |-> rid]

\* MessageModel.objects.create(text=text, sender=from_, recipient=to, random_id=rid)
save_text_message(msgs, text, from, to, rid) ==
    Append(msgs, Row(Pid(Len(msgs) + 1), from, to, text, "", rid))

\* MessageModel.objects.create(file=file, sender=from_, recipient=to)
save_file_message(msgs, file, from, to) ==
    Append(msgs, Row(Pid(Len(msgs) + 1), from, to, "", file, JAbsent))

\* the string is the text of a UUID: UUIDField.to_python accepts it
IsValidUuid(mid) == mid \in {Pid(n) : n \in 1..6}

\* what get_message_by_id gives when filter(pid=mid) raises ValidationError, which
\* it does not catch (get_file_by_id does, lines 88-91)
ValidationError == <<"ValidationError">>

\* the (str(recipient.pk), str(sender.pk)) of the row with this pid, <<>> for None;
\* a mid that is no UUID makes the filter on the UUIDField pid raise
get_message_by_id(msgs, mid) ==
    IF ~IsValidUuid(mid) THEN ValidationError
    ELSE IF \E i \in DOMAIN msgs : msgs[i].pid = mid
    THEN LET i == CHOOSE j \in DOMAIN msgs : msgs[j].pid = mid
         IN  <<ToStr(msgs[i].recipient), ToStr(msgs[i].sender)>>
    ELSE <<>>

\* faulty variant: the update of the read flag matches no row
mark_no_message(msgs, mid) == msgs

\* MessageModel.objects.filter(pid=mid).update(read=True)
mark_message_as_read(msgs, mid) ==
    [i \in DOMAIN msgs |-> IF msgs[i].pid = mid THEN [msgs[i] EXCEPT !.read = TRUE]
                                                ELSE msgs[i]]

\* MessageModel.get_unread_count_for_dialog_with_user(sender, recipient): the rows
\* from sender to recipient that are not read
get_unread_count_for_dialog_with_user(msgs, sender, recipient) ==
    Cardinality({i \in DOMAIN msgs : /\ ToStr(msgs[i].sender) = sender
                                     /\ ToStr(msgs[i].recipient) = recipient
                                     /\ ~msgs[i].read})

get_unread_count(msgs, sender, recipient) ==
    get_unread_count_for_dialog_with_user(msgs, sender, recipient)

\* DialogsModel.get_dialogs_for_user(u): the (user1, user2) pairs u takes part in
get_dialogs_for_user(dlgs, u) == {d \in dlgs : d[1] = u \/ d[2] = u}

\* set(list(sum(l, ()))): the pks that occur in the pairs
get_groups_to_add(dlgs, u) ==
    {d[1] : d \in get_dialogs_for_user(dlgs, u)} \cup {d[2] : d \in get_dialogs_for_user(dlgs, u)}

\* a dialog row exists once a message has passed between two users
dialog_created(dlgs, from, to) ==
    IF <<from, to>> \in dlgs \/ <<to, from>> \in dlgs THEN dlgs ELSE dlgs \cup {<<from, to>>}

(* ----------------------------- validation ------------------------------ *)
\* what a handler returns or raises before its first side effect
Ok == 0
Raised == 99

\* data['random_id'] > 0
RandomIdPositive(rid) == rid.n > 0

\* faulty variant: a random_id that is no int is reported as a parsing error
RandomIdErrorParsing(rid) ==
    IF ~IsInt(rid) THEN MessageParsingError
    ELSE IF RandomIdPositive(rid) THEN InvalidRandomId
    ELSE Ok

\* lines 339-342 / 286-289: the two checks of random_id
RandomIdError(rid) ==
    IF ~IsInt(rid) THEN InvalidRandomId
    ELSE IF RandomIdPositive(rid) THEN InvalidRandomId
    ELSE Ok

\* faulty variant: a text of the maximum length is taken to be too long
TextErrorOffByOne(text) ==
    IF IsStr(text) /\ text.len = 0 THEN TextMessageInvalid
    ELSE IF ~HasLen(text) THEN Raised
    ELSE IF text.len >= TEXT_MAX_LENGTH THEN TextMessageInvalid
    ELSE IF ~IsStr(text) THEN TextMessageInvalid
    ELSE Ok

\* lines 331-336: the checks of text; len() of a value without a length (a number,
\* a bool, null) raises TypeError before the isinstance test of line 335 is
\* reached; a list or a dict has a length and is rejected at line 334 or 336
TextError(text) ==
    IF IsStr(text) /\ text.len = 0 THEN TextMessageInvalid
    ELSE IF ~HasLen(text) THEN Raised
    ELSE IF text.len > TEXT_MAX_LENGTH THEN TextMessageInvalid
    ELSE IF ~IsStr(text) THEN TextMessageInvalid
    ELSE Ok

\* lines 351-352: the user a frame names does not exist
UserLookupError(upk) ==
    IF get_user_by_username(upk.s) = NoUser THEN InvalidUserPk ELSE Ok

\* lines 325-346: the checks of the fields of a TextMessage, which come before
\* the await of the lookup of the recipient
TextFieldError(f) ==
    IF ~Has(f.text) THEN MessageParsingError
    ELSE IF ~Has(f.user_pk) THEN MessageParsingError
    ELSE IF ~Has(f.random_id) THEN MessageParsingError
    ELSE IF TextError(f.text) # Ok THEN TextError(f.text)
    ELSE IF ~IsStr(f.user_pk) THEN InvalidUserPk
    ELSE IF RandomIdError(f.random_id) # Ok THEN RandomIdError(f.random_id)
    ELSE Ok

\* lines 325-352: a TextMessage up to the lookup of the recipient
ValidateText(f) ==
    IF TextFieldError(f) # Ok THEN TextFieldError(f)
    ELSE UserLookupError(f.user_pk)

\* faulty variant: the file row is not looked up before the message is handled
FileLookupSkipped(file_id) == Ok

\* lines 296-299: the file row is resolved before anything else is done
FileLookupError(file_id) ==
    IF get_file_by_id(file_id.s) = "" THEN FileDoesNotExist ELSE Ok

\* lines 274-293: the checks of the fields of a FileMessage, which come before
\* the await of the lookup of the file
FileFieldError(f) ==
    IF ~Has(f.file_id) THEN MessageParsingError
    ELSE IF ~Has(f.user_pk) THEN MessageParsingError
    ELSE IF ~Has(f.random_id) THEN MessageParsingError
    ELSE IF IsStr(f.file_id) /\ f.file_id.len = 0 THEN FileMessageInvalid
    ELSE IF ~IsStr(f.file_id) THEN FileMessageInvalid
    ELSE IF ~IsStr(f.user_pk) THEN InvalidUserPk
    ELSE IF RandomIdError(f.random_id) # Ok THEN RandomIdError(f.random_id)
    ELSE Ok

\* lines 274-304: a FileMessage up to the lookup of the recipient
ValidateFile(f) ==
    IF FileFieldError(f) # Ok THEN FileFieldError(f)
    ELSE IF FileLookupError(f.file_id) # Ok THEN FileLookupError(f.file_id)
    ELSE UserLookupError(f.user_pk)

\* faulty variant: the test for a receipt that targets its own sender is missing
ReadTargetNeverSelf(upk, sender_username) == FALSE

\* line 242: data['user_pk'] == self.sender_username
ReadTargetIsSelf(upk, sender_username) == upk.s = sender_username

\* lines 234-243: the checks of the fields of a MessageRead, which come before
\* the await of the lookup of the target user
ReadFieldError(f, sender_username) ==
    IF ~Has(f.user_pk) THEN MessageParsingError
    ELSE IF ~Has(f.message_id) THEN MessageParsingError
    ELSE IF ~IsStr(f.user_pk) THEN InvalidUserPk
    ELSE IF ~IsStr(f.message_id) THEN InvalidRandomId
    ELSE IF ReadTargetIsSelf(f.user_pk, sender_username) THEN InvalidUserPk
    ELSE Ok

\* lines 234-250: a MessageRead up to the lookup of the target user
ValidateRead(f, sender_username) ==
    IF ReadFieldError(f, sender_username) # Ok THEN ReadFieldError(f, sender_username)
    ELSE UserLookupError(f.user_pk)

\* lines 188-189 / 209-210: the check of the field of IsTyping and TypingStopped
TypingFieldError(f) ==
    IF Has(f.user_pk) /\ ~IsStr(f.user_pk) THEN MessageParsingError ELSE Ok

\* lines 188-195 / 209-216: IsTyping and TypingStopped
ValidateTyping(f) ==
    IF TypingFieldError(f) # Ok THEN TypingFieldError(f)
    ELSE IF Has(f.user_pk) THEN UserLookupError(f.user_pk)
    ELSE Ok

\* lines 379-396 and the dispatch of handle_received_message on msg_type.  The
\* kinds of lines 181-184 are ignored; heartbeat_received() is a hook of the
\* subclass and is taken to return None.
Validate(f, sender_username) ==
    IF f.env = "malformed" THEN MessageParsingError
    ELSE IF ~Has(f.msg_type) THEN MessageParsingError
    ELSE IF ~IsInt(f.msg_type) THEN MessageParsingError
    ELSE IF f.msg_type.n \notin MessageTypes THEN MessageParsingError
    ELSE IF f.msg_type.n = TextMessage THEN ValidateText(f)
    ELSE IF f.msg_type.n = FileMessage THEN ValidateFile(f)
    ELSE IF f.msg_type.n = MessageRead THEN ValidateRead(f, sender_username)
    ELSE IF f.msg_type.n \in {IsTyping, TypingStopped} THEN ValidateTyping(f)
    ELSE Ok

\* lines 379-396 and the dispatch of handle_received_message up to the first
\* await of a lookup (lines 192, 213, 247, 296, 349): the frame is parsed and its
\* fields are checked
FieldError(f, sender_username) ==
    IF f.env = "malformed" THEN MessageParsingError
    ELSE IF ~Has(f.msg_type) THEN MessageParsingError
    ELSE IF ~IsInt(f.msg_type) THEN MessageParsingError
    ELSE IF f.msg_type.n \notin MessageTypes THEN MessageParsingError
    ELSE IF f.msg_type.n = TextMessage THEN TextFieldError(f)
    ELSE IF f.msg_type.n = FileMessage THEN FileFieldError(f)
    ELSE IF f.msg_type.n = MessageRead THEN ReadFieldError(f, sender_username)
    ELSE IF f.msg_type.n \in {IsTyping, TypingStopped} THEN TypingFieldError(f)
    ELSE Ok

\* the kind of a frame that passed Validate
Kind(f) == IF f.env = "object" /\ IsInt(f.msg_type) THEN f.msg_type.n ELSE 0

(* ------------------------- channel layer events ------------------------ *)
\* lines 360-369.  sender_metadata() is the hook a subclass of ChatConsumer has to
\* provide (the base class raises NotImplementedError); the consumer modelled is a
\* subclass whose hook adds no keys, and frames carry no "preview" keys.
text_message_event(s, f, sender_username) ==
    [type |-> "new_text_message", random_id |-> f.random_id, text |-> f.text.s,
     sender |-> sender_username, receiver |-> f.user_pk.s, sender_channel_name |-> s]

\* lines 311-319
file_message_event(s, f, sender_username, pid) ==
    [type |-> "new_file_message", db_id |-> pid, file |-> f.file_id.s,
     sender |-> sender_username, receiver |-> f.user_pk.s, sender_channel_name |-> s]

\* line 134
message_id_created_event(rid, pid) ==
    [type |-> "message_id_created", random_id |-> rid, db_id |-> pid]

\* lines 140-141 and 267-268
new_unread_count_event(sender, n) ==
    [type |-> "new_unread_count", sender |-> sender, unread_count |-> n]

\* lines 254-257
message_read_event(mid, sender, receiver) ==
    [type |-> "message_read", message_id |-> mid, sender |-> sender, receiver |-> receiver]

\* lines 198-199, 219-220, 161, 177
user_event(type, username) == [type |-> type, user_pk |-> username]

(* ------------------------------- state --------------------------------- *)
VARIABLES
    sess,        \* lifecycle of each connection: Unauthenticated, Connected, Closed
    user,        \* self.user of each consumer (NoUser until connect sets it)
    close_code,  \* the code a connection was closed with (0 while open)
    pc,          \* the await each consumer's running handler is at
    frame,       \* the frame a consumer's receive() was last called with
    loc,         \* locals of the running handler: recipient, msg, new_unreads, dialogs
    result,      \* what handle_received_message returned for that frame
    groups,      \* channel layer: group name -> channels joined
    inbox,       \* channel layer: events put on each channel, in order
    nread,       \* how many events of its channel each consumer has dispatched
    outbox,      \* frames each consumer sent down its websocket, in order
    published,   \* history: the events group_send was called with, per group
    effects,     \* history: the side effects of the handler of the last frame
    messages,    \* MessageModel table, in creation order
    dialogs,     \* DialogsModel table
    nframes      \* number of frames received so far

vars == <<sess, user, close_code, pc, frame, loc, result, groups, inbox, nread, outbox,
          published, effects, messages, dialogs, nframes>>

conn_vars == <<sess, user, close_code>>
store_vars == <<messages, dialogs>>
bus_vars == <<groups, inbox, published>>

NoLoc == [recipient |-> NoUser, msg |-> NoMsg, new_unreads |-> 0, todo |-> {}, fid |-> 0,
          error |-> Ok]

\* self.group_name and self.sender_username (lines 151-152)
group_name(s) == ToStr(user[s])
sender_username(s) == Username[user[s]]

(* --------------------------- channel layer ----------------------------- *)
\* channel_layer.group_send(g, ev) called by the handler of s: the event is put on
\* the channel of every member of the group
group_send(s, g, ev) ==
    /\ inbox' = [t \in Sessions |-> IF t \in groups[g] THEN Append(inbox[t], ev)
                                                       ELSE inbox[t]]
    /\ published' = [published EXCEPT ![g] = Append(@, [ev |-> ev, fid |-> loc[s].fid])]
    /\ effects' = [effects EXCEPT ![s] =
                      Append(@, [op |-> "publish", to |-> g, what |-> ev.type])]
    /\ UNCHANGED groups

\* self.send(json.dumps({'msg_type': ErrorOccurred, 'error': error})) (lines 397-403)
error_frame(code) == [msg_type |-> ErrorOccurred, error |-> code]

(* ------------------------------ connect -------------------------------- *)
\* faulty variant: every connection is taken to be logged in
IsAuthenticatedAlways(u) == TRUE

\* line 149: self.scope["user"].is_authenticated
IsAuthenticated(u) == u # Anonymous

\* lines 149-152 and 162-163: the authentication test of connect()
Connect(s) ==
    /\ pc[s] = "new"
    /\ IF IsAuthenticated(ScopeUser[s])
       THEN /\ user' = [user EXCEPT ![s] = ScopeUser[s]]
            /\ pc' = [pc EXCEPT ![s] = "c_add"]
            /\ UNCHANGED <<sess, close_code>>
       ELSE /\ sess' = [sess EXCEPT ![s] = "Closed"]
            /\ close_code' = [close_code EXCEPT ![s] = AUTH_CLOSE_CODE]
            /\ pc' = [pc EXCEPT ![s] = "rejected"]
            /\ UNCHANGED user
    /\ UNCHANGED <<frame, loc, result, bus_vars, nread, outbox, effects, store_vars, nframes>>

\* line 154: group_add(self.group_name, self.channel_name)
ConnectGroupAdd(s) ==
    /\ pc[s] = "c_add"
    /\ groups' = [groups EXCEPT ![group_name(s)] = @ \cup {s}]
    /\ pc' = [pc EXCEPT ![s] = "c_accept"]
    /\ UNCHANGED <<conn_vars, frame, loc, result, inbox, published, nread, outbox, effects,
                   store_vars, nframes>>

\* line 155: accept()
ConnectAccept(s) ==
    /\ pc[s] = "c_accept"
    /\ sess' = [sess EXCEPT ![s] = "Connected"]
    /\ pc' = [pc EXCEPT ![s] = "c_dialogs"]
    /\ UNCHANGED <<user, close_code, frame, loc, result, bus_vars, nread, outbox, effects,
                   store_vars, nframes>>

\* line 156: dialogs = await get_groups_to_add(self.user)
ConnectDialogs(s) ==
    /\ pc[s] = "c_dialogs"
    /\ loc' = [loc EXCEPT ![s].todo = get_groups_to_add(dialogs, user[s])]
    /\ pc' = [pc EXCEPT ![s] = "c_loop"]
    /\ UNCHANGED <<conn_vars, frame, result, bus_vars, nread, outbox, effects, store_vars,
                   nframes>>

\* faulty variant: went-online is sent to every group of the set
OnlineTargetAll(d, own) == TRUE

\* line 159: the groups went-online is sent to
OnlineTarget(d, own) == ToStr(d) # own

\* lines 158-161: one iteration of the loop over dialogs, or its end
ConnectLoop(s) ==
    /\ pc[s] = "c_loop"
    /\ IF loc[s].todo = {}
       THEN /\ pc' = [pc EXCEPT ![s] = "idle"]
            /\ UNCHANGED <<loc, bus_vars, effects>>
       ELSE \E d \in loc[s].todo :
            /\ loc' = [loc EXCEPT ![s].todo = @ \ {d}]
            /\ pc' = pc
            /\ IF OnlineTarget(d, group_name(s))
               THEN group_send(s, ToStr(d), user_event("user_went_online", sender_username(s)))
               ELSE UNCHANGED <<bus_vars, effects>>
    /\ UNCHANGED <<conn_vars, frame, result, nread, outbox, store_vars, nframes>>

(* ------------------------------ receive -------------------------------- *)
\* The awaits of handle_received_message, in the order the code reaches them once
\* the fields of the frame have passed their checks.

\* faulty variant: the id-assignment is published before the delivery event
TextFlowIdFirst ==
    <<"t_user", "t_save", "a_id_to", "a_id_self", "a_count", "a_pub_count", "t_pub_to", "t_pub_self">>

\* faulty variant: the row is created before the delivery events are published
TextFlowSaveFirst ==
    <<"t_user", "t_save", "t_pub_to", "t_pub_self", "a_id_to", "a_id_self", "a_count", "a_pub_count">>

\* lines 349-374 with 134-141: a TextMessage
TextFlow ==
    <<"t_user", "t_pub_to", "t_pub_self", "t_save", "a_id_to", "a_id_self", "a_count", "a_pub_count">>

\* faulty variant: the delivery events are published right after the row is created
FileFlowDeliveryFirst ==
    <<"f_file", "f_user", "f_save", "f_pub_to", "f_pub_self", "a_id_to", "a_id_self", "a_count", "a_pub_count">>

\* lines 296-321 with 134-141: a FileMessage
FileFlow ==
    <<"f_file", "f_user", "f_save", "a_id_to", "a_id_self", "a_count", "a_pub_count", "f_pub_to", "f_pub_self">>

\* faulty variant: the row is looked up before the notification is published
ReadFlowLookupFirst == <<"r_user", "r_lookup", "r_notify", "r_mark", "r_count", "r_pub">>

\* lines 247-268: a MessageRead
ReadFlow == <<"r_user", "r_notify", "r_lookup", "r_mark", "r_count", "r_pub">>

\* lines 190-206 and 211-227: IsTyping and TypingStopped
TypingFlow(f) ==
    IF Has(f.user_pk) THEN <<"y_user", "y_pub">> ELSE <<"y_dialogs", "y_loop">>

Flow(f) ==
    CASE Kind(f) = TextMessage -> TextFlow
      [] Kind(f) = FileMessage -> FileFlow
      [] Kind(f) = MessageRead -> ReadFlow
      [] Kind(f) \in {IsTyping, TypingStopped} -> TypingFlow(f)
      [] OTHER -> <<>>

\* the await that follows await p of the handler of frame f ("idle": it returns)
After(f, p) ==
    LET fl == Flow(f)
    IN  IF p = "idle"
        THEN IF fl = <<>> THEN "idle" ELSE fl[1]
        ELSE IF \E i \in 1..(Len(fl) - 1) : fl[i] = p
             THEN fl[(CHOOSE i \in 1..(Len(fl) - 1) : fl[i] = p) + 1]
             ELSE "idle"

\* faulty variant: a handler whose socket has closed is abandoned at its next await
GotoUnlessClosed(s, p) ==
    pc' = [pc EXCEPT ![s] = IF sess[s] = "Closed" THEN "idle" ELSE After(frame[s], p)]

Goto(s, p) == pc' = [pc EXCEPT ![s] = After(frame[s], p)]

\* receive(text_data) up to the first await of the handler: the frame is parsed and
\* its fields are checked.  A frame rejected by a field check is answered with one
\* error frame at once.  An exception other than JSONDecodeError and ValueError
\* is not caught (lines 393, 395): it ends the consumer, no frame is sent and the
\* connection is lost without disconnect() being run.
Receive(s, F, max) ==
    /\ pc[s] = "idle"
    /\ sess[s] = "Connected"
    /\ nframes < max
    /\ \E f \in F :
         LET err == FieldError(f, sender_username(s))
         IN  /\ frame' = [frame EXCEPT ![s] = f]
             /\ result' = [result EXCEPT ![s] = err]
             /\ loc' = [loc EXCEPT ![s] = [NoLoc EXCEPT !.fid = nframes + 1]]
             /\ IF err = Raised
                THEN /\ pc' = [pc EXCEPT ![s] = "crashed"]
                     /\ sess' = [sess EXCEPT ![s] = "Closed"]
                     /\ UNCHANGED outbox
                ELSE IF err # Ok
                THEN /\ outbox' = [outbox EXCEPT ![s] = Append(@, error_frame(err))]
                     /\ UNCHANGED <<pc, sess>>
                ELSE /\ pc' = [pc EXCEPT ![s] = After(f, "idle")]
                     /\ UNCHANGED <<outbox, sess>>
    /\ nframes' = nframes + 1
    /\ effects' = [effects EXCEPT ![s] = <<>>]
    /\ UNCHANGED <<user, close_code, bus_vars, nread, store_vars>>

\* an await of get_user_by_username(user_pk) and the test of its result: the
\* handler goes on with the user, or returns InvalidUserPk to receive()
LookupUser(s, p) ==
    /\ pc[s] = p
    /\ IF UserLookupError(frame[s].user_pk) # Ok
       THEN /\ loc' = [loc EXCEPT ![s].error = UserLookupError(frame[s].user_pk)]
            /\ pc' = [pc EXCEPT ![s] = "send_error"]
       ELSE /\ loc' = [loc EXCEPT ![s].recipient = get_user_by_username(frame[s].user_pk.s)]
            /\ Goto(s, p)
    /\ UNCHANGED <<conn_vars, frame, result, bus_vars, nread, outbox, effects, store_vars,
                   nframes>>

\* lines 397-403: the error a lookup led to is returned to receive(), which sends
\* the error frame, whether or not the socket is still open
SendError(s) ==
    /\ pc[s] = "send_error"
    /\ result' = [result EXCEPT ![s] = loc[s].error]
    /\ outbox' = [outbox EXCEPT ![s] = Append(@, error_frame(loc[s].error))]
    /\ pc' = [pc EXCEPT ![s] = "idle"]
    /\ UNCHANGED <<conn_vars, frame, loc, bus_vars, nread, effects, store_vars, nframes>>

(* ---------------------------- TextMessage ------------------------------ *)
\* lines 349-352: recipient = await get_user_by_username(user_pk)
TextLookupUser(s) == LookupUser(s, "t_user")

\* line 370: group_send(str(recipient.pk), text_message_event)
TextPublishRecipient(s) ==
    /\ pc[s] = "t_pub_to"
    /\ group_send(s, ToStr(loc[s].recipient),
                  text_message_event(s, frame[s], sender_username(s)))
    /\ Goto(s, "t_pub_to")
    /\ UNCHANGED <<conn_vars, frame, loc, result, nread, outbox, store_vars, nframes>>

\* line 371: group_send(self.group_name, text_message_event)
TextPublishSelf(s) ==
    /\ pc[s] = "t_pub_self"
    /\ group_send(s, group_name(s), text_message_event(s, frame[s], sender_username(s)))
    /\ Goto(s, "t_pub_self")
    /\ UNCHANGED <<conn_vars, frame, loc, result, nread, outbox, store_vars, nframes>>

\* line 373: msg = await save_text_message(text, from_=self.user, to=recipient, rid=rid)
TextSave(s) ==
    /\ pc[s] = "t_save"
    /\ messages' = save_text_message(messages, frame[s].text.s, user[s], loc[s].recipient,
                                     frame[s].random_id)
    /\ dialogs' = dialog_created(dialogs, user[s], loc[s].recipient)
    /\ loc' = [loc EXCEPT ![s].msg = messages'[Len(messages')].pid]
    /\ effects' = [effects EXCEPT ![s] =
                      Append(@, [op |-> "save", to |-> "", what |-> loc'[s].msg])]
    /\ Goto(s, "t_save")
    /\ UNCHANGED <<conn_vars, frame, result, bus_vars, nread, outbox, nframes>>

(* ------------------------- _after_message_save ------------------------- *)
\* line 136: group_send(user_pk, ev)
AfterSaveIdRecipient(s) ==
    /\ pc[s] = "a_id_to"
    /\ group_send(s, ToStr(loc[s].recipient),
                  message_id_created_event(frame[s].random_id, loc[s].msg))
    /\ Goto(s, "a_id_to")
    /\ UNCHANGED <<conn_vars, frame, loc, result, nread, outbox, store_vars, nframes>>

\* line 137: group_send(self.group_name, ev)
AfterSaveIdSelf(s) ==
    /\ pc[s] = "a_id_self"
    /\ group_send(s, group_name(s),
                  message_id_created_event(frame[s].random_id, loc[s].msg))
    /\ Goto(s, "a_id_self")
    /\ UNCHANGED <<conn_vars, frame, loc, result, nread, outbox, store_vars, nframes>>

\* line 138: new_unreads = await get_unread_count(self.group_name, user_pk)
AfterSaveCount(s) ==
    /\ pc[s] = "a_count"
    /\ loc' = [loc EXCEPT ![s].new_unreads =
                  get_unread_count(messages, group_name(s), ToStr(loc[s].recipient))]
    /\ Goto(s, "a_count")
    /\ UNCHANGED <<conn_vars, frame, result, bus_vars, nread, outbox, effects, store_vars,
                   nframes>>

\* lines 139-141: group_send(user_pk, new_unread_count)
AfterSavePublishCount(s) ==
    /\ pc[s] = "a_pub_count"
    /\ group_send(s, ToStr(loc[s].recipient),
                  new_unread_count_event(sender_username(s), loc[s].new_unreads))
    /\ Goto(s, "a_pub_count")
    /\ UNCHANGED <<conn_vars, frame, loc, result, nread, outbox, store_vars, nframes>>

(* ---------------------------- FileMessage ------------------------------ *)
\* lines 296-299: file = await get_file_by_id(file_id); a missing file is returned
\* to receive() as FileDoesNotExist
FileLookup(s) ==
    /\ pc[s] = "f_file"
    /\ IF FileLookupError(frame[s].file_id) # Ok
       THEN /\ loc' = [loc EXCEPT ![s].error = FileLookupError(frame[s].file_id)]
            /\ pc' = [pc EXCEPT ![s] = "send_error"]
       ELSE /\ Goto(s, "f_file")
            /\ UNCHANGED loc
    /\ UNCHANGED <<conn_vars, frame, result, bus_vars, nread, outbox, effects, store_vars,
                   nframes>>

\* lines 301-304: recipient = await get_user_by_username(user_pk)
FileLookupUser(s) == LookupUser(s, "f_user")

\* line 307: msg = await save_file_message(file, from_=self.user, to=recipient)
FileSave(s) ==
    /\ pc[s] = "f_save"
    /\ messages' = save_file_message(messages, get_file_by_id(frame[s].file_id.s), user[s],
                                     loc[s].recipient)
    /\ dialogs' = dialog_created(dialogs, user[s], loc[s].recipient)
    /\ loc' = [loc EXCEPT ![s].msg = messages'[Len(messages')].pid]
    /\ effects' = [effects EXCEPT ![s] =
                      Append(@, [op |-> "save", to |-> "", what |-> loc'[s].msg])]
    /\ Goto(s, "f_save")
    /\ UNCHANGED <<conn_vars, frame, result, bus_vars, nread, outbox, nframes>>

\* line 320: group_send(str(recipient.pk), file_message_event)
FilePublishRecipient(s) ==
    /\ pc[s] = "f_pub_to"
    /\ group_send(s, ToStr(loc[s].recipient),
                  file_message_event(s, frame[s], sender_username(s), loc[s].msg))
    /\ Goto(s, "f_pub_to")
    /\ UNCHANGED <<conn_vars, frame, loc, result, nread, outbox, store_vars, nframes>>

\* line 321: group_send(self.group_name, file_message_event)
FilePublishSelf(s) ==
    /\ pc[s] = "f_pub_self"
    /\ group_send(s, group_name(s),
                  file_message_event(s, frame[s], sender_username(s), loc[s].msg))
    /\ Goto(s, "f_pub_self")
    /\ UNCHANGED <<conn_vars, frame, loc, result, nread, outbox, store_vars, nframes>>

(* ---------------------------- MessageRead ------------------------------ *)
\* lines 247-250: recipient = await get_user_by_username(user_pk)
ReadLookupUser(s) == LookupUser(s, "r_user")

\* lines 254-257: group_send(str(recipient.pk), message_read)
ReadNotify(s) ==
    /\ pc[s] = "r_notify"
    /\ group_send(s, ToStr(loc[s].recipient),
                  message_read_event(frame[s].message_id.s, frame[s].user_pk.s,
                                     sender_username(s)))
    /\ Goto(s, "r_notify")
    /\ UNCHANGED <<conn_vars, frame, loc, result, nread, outbox, store_vars, nframes>>

\* faulty variant: the two parties of the row are compared without regard to their roles
ReadPairMismatchUnordered(msg_res, own_group, target_group) ==
    {msg_res[1], msg_res[2]} # {own_group, target_group}

\* line 261: msg_res[0] != self.group_name or msg_res[1] != str(recipient.pk)
ReadPairMismatch(msg_res, own_group, target_group) ==
    msg_res[1] # own_group \/ msg_res[2] # target_group

\* faulty variant: a row of other parties is reported with the error of the user check
ReadLookupErrorUserPk(msg_res, own_group, target_group) ==
    IF msg_res = ValidationError THEN Raised
    ELSE IF msg_res = <<>> THEN InvalidMessageReadId
    ELSE IF ReadPairMismatch(msg_res, own_group, target_group) THEN InvalidUserPk
    ELSE Ok

\* lines 258-262: the lookup of the message and the check of its two parties
ReadLookupError(msg_res, own_group, target_group) ==
    IF msg_res = ValidationError THEN Raised
    ELSE IF msg_res = <<>> THEN InvalidMessageReadId
    ELSE IF ReadPairMismatch(msg_res, own_group, target_group) THEN InvalidMessageReadId
    ELSE Ok

\* line 258: msg_res = await get_message_by_id(mid), and what lines 259-262 make
\* of it; the error frame is sent by receive() at its next step.  The
\* ValidationError of a mid that is no UUID is caught neither here nor in
\* receive(): it ends the consumer as the exception of Receive does.
ReadLookup(s) ==
    /\ pc[s] = "r_lookup"
    /\ LET err == ReadLookupError(get_message_by_id(messages, frame[s].message_id.s),
                                  group_name(s), ToStr(loc[s].recipient))
       IN  IF err = Raised
           THEN /\ pc' = [pc EXCEPT ![s] = "crashed"]
                /\ sess' = [sess EXCEPT ![s] = "Closed"]
                /\ result' = [result EXCEPT ![s] = Raised]
                /\ UNCHANGED loc
           ELSE /\ loc' = [loc EXCEPT ![s].error = err]
                /\ IF err # Ok
                   THEN pc' = [pc EXCEPT ![s] = "send_error"]
                   ELSE Goto(s, "r_lookup")
                /\ UNCHANGED <<sess, result>>
    /\ UNCHANGED <<user, close_code, frame, bus_vars, nread, outbox, effects, store_vars,
                   nframes>>

\* line 264: await mark_message_as_read(mid)
ReadMark(s) ==
    /\ pc[s] = "r_mark"
    /\ messages' = mark_message_as_read(messages, frame[s].message_id.s)
    /\ effects' = [effects EXCEPT ![s] =
                      Append(@, [op |-> "mark_read", to |-> "", what |-> frame[s].message_id.s])]
    /\ Goto(s, "r_mark")
    /\ UNCHANGED <<conn_vars, frame, loc, result, bus_vars, nread, outbox, dialogs, nframes>>

\* line 265: new_unreads = await get_unread_count(str(recipient.pk), self.group_name)
ReadCount(s) ==
    /\ pc[s] = "r_count"
    /\ loc' = [loc EXCEPT ![s].new_unreads =
                  get_unread_count(messages, ToStr(loc[s].recipient), group_name(s))]
    /\ Goto(s, "r_count")
    /\ UNCHANGED <<conn_vars, frame, result, bus_vars, nread, outbox, effects, store_vars,
                   nframes>>

\* lines 266-268: group_send(self.group_name, new_unread_count)
ReadPublishCount(s) ==
    /\ pc[s] = "r_pub"
    /\ group_send(s, group_name(s),
                  new_unread_count_event(frame[s].user_pk.s, loc[s].new_unreads))
    /\ Goto(s, "r_pub")
    /\ UNCHANGED <<conn_vars, frame, loc, result, nread, outbox, store_vars, nframes>>

(* ----------------------- IsTyping / TypingStopped ---------------------- *)
typing_type(f) == IF Kind(f) = IsTyping THEN "is_typing" ELSE "stopped_typing"

\* lines 192-195 / 213-216: recipient = await get_user_by_username(user_pk)
TypingLookupUser(s) == LookupUser(s, "y_user")

\* lines 198-199 / 219-220: group_send(str(recipient.pk), is_typing)
TypingPublish(s) ==
    /\ pc[s] = "y_pub"
    /\ group_send(s, ToStr(loc[s].recipient),
                  user_event(typing_type(frame[s]), sender_username(s)))
    /\ Goto(s, "y_pub")
    /\ UNCHANGED <<conn_vars, frame, loc, result, nread, outbox, store_vars, nframes>>

\* lines 201 / 222: dialogs = await get_groups_to_add(self.user)
TypingDialogs(s) ==
    /\ pc[s] = "y_dialogs"
    /\ loc' = [loc EXCEPT ![s].todo = get_groups_to_add(dialogs, user[s])]
    /\ Goto(s, "y_dialogs")
    /\ UNCHANGED <<conn_vars, frame, result, bus_vars, nread, outbox, effects, store_vars,
                   nframes>>

\* faulty variant: a typing signal without target is sent to every group of the set
TypingTargetAll(d, own) == TRUE

\* lines 204 / 225: the groups a typing signal without target is sent to
TypingTarget(d, own) == ToStr(d) # own

\* lines 203-206 / 224-227: one iteration of the loop over dialogs, or its end
TypingLoop(s) ==
    /\ pc[s] = "y_loop"
    /\ IF loc[s].todo = {}
       THEN /\ Goto(s, "y_loop")
            /\ UNCHANGED <<loc, bus_vars, effects>>
       ELSE \E d \in loc[s].todo :
            /\ loc' = [loc EXCEPT ![s].todo = @ \ {d}]
            /\ pc' = pc
            /\ IF TypingTarget(d, group_name(s))
               THEN group_send(s, ToStr(d),
                               user_event(typing_type(frame[s]), sender_username(s)))
               ELSE UNCHANGED <<bus_vars, effects>>
    /\ UNCHANGED <<conn_vars, frame, result, nread, outbox, store_vars, nframes>>

(* ----------------------------- disconnect ------------------------------ *)
\* close codes a websocket.disconnect can carry
CloseCodes == {1000, 1006, AUTH_CLOSE_CODE}

\* line 170: close_code != 4001 and getattr(self, 'user', None) is not None
DisconnectCleans(code, u) == code # AUTH_CLOSE_CODE /\ u # NoUser

\* disconnect(close_code) is dispatched between two handlers of the consumer
Disconnect(s) ==
    /\ pc[s] \in {"idle", "rejected"}
    /\ \E code \in CloseCodes :
         /\ close_code' = [close_code EXCEPT ![s] = IF pc[s] = "rejected" THEN @ ELSE code]
         /\ pc' = [pc EXCEPT ![s] = IF DisconnectCleans(code, user[s]) THEN "d_discard"
                                                                      ELSE "done"]
    /\ sess' = [sess EXCEPT ![s] = "Closed"]
    /\ effects' = [effects EXCEPT ![s] = <<>>]
    /\ loc' = [loc EXCEPT ![s] = NoLoc]
    /\ UNCHANGED <<user, frame, result, bus_vars, nread, outbox, store_vars, nframes>>

\* the socket closes while a handler of the consumer is running: the call of
\* disconnect(close_code) waits until that handler has returned
PeerCloses(s) ==
    /\ sess[s] = "Connected"
    /\ pc[s] \notin {"idle", "off", "crashed"}
    /\ \E code \in CloseCodes : close_code' = [close_code EXCEPT ![s] = code]
    /\ sess' = [sess EXCEPT ![s] = "Closed"]
    /\ UNCHANGED <<user, pc, frame, loc, result, bus_vars, nread, outbox, effects,
                   store_vars, nframes>>

\* disconnect(close_code) of a socket that closed during a handler, dispatched
\* once the handler has returned
DisconnectQueued(s) ==
    /\ pc[s] = "idle"
    /\ sess[s] = "Closed"
    /\ pc' = [pc EXCEPT ![s] = IF DisconnectCleans(close_code[s], user[s]) THEN "d_discard"
                                                                            ELSE "done"]
    /\ effects' = [effects EXCEPT ![s] = <<>>]
    /\ loc' = [loc EXCEPT ![s] = NoLoc]
    /\ UNCHANGED <<conn_vars, frame, result, bus_vars, nread, outbox, store_vars, nframes>>

\* line 173: group_discard(self.group_name, self.channel_name)
DisconnectDiscard(s) ==
    /\ pc[s] = "d_discard"
    /\ groups' = [groups EXCEPT ![group_name(s)] = @ \ {s}]
    /\ pc' = [pc EXCEPT ![s] = "d_dialogs"]
    /\ UNCHANGED <<conn_vars, frame, loc, result, inbox, published, nread, outbox, effects,
                   store_vars, nframes>>

\* line 174: dialogs = await get_groups_to_add(self.user)
DisconnectDialogs(s) ==
    /\ pc[s] = "d_dialogs"
    /\ loc' = [loc EXCEPT ![s].todo = get_groups_to_add(dialogs, user[s])]
    /\ pc' = [pc EXCEPT ![s] = "d_loop"]
    /\ UNCHANGED <<conn_vars, frame, result, bus_vars, nread, outbox, effects, store_vars,
                   nframes>>

\* line 176: the groups went-offline is sent to (every one of dialogs)
OfflineTarget(d, own) == TRUE

\* lines 176-177: one iteration of the loop over dialogs, or its end
DisconnectLoop(s) ==
    /\ pc[s] = "d_loop"
    /\ IF loc[s].todo = {}
       THEN /\ pc' = [pc EXCEPT ![s] = "done"]
            /\ UNCHANGED <<loc, bus_vars, effects>>
       ELSE \E d \in loc[s].todo :
            /\ loc' = [loc EXCEPT ![s].todo = @ \ {d}]
            /\ pc' = pc
            /\ IF OfflineTarget(d, group_name(s))
               THEN group_send(s, ToStr(d), user_event("user_went_offline", sender_username(s)))
               ELSE UNCHANGED <<bus_vars, effects>>
    /\ UNCHANGED <<conn_vars, frame, result, nread, outbox, store_vars, nframes>>

(* ------------------------ events to the websocket ---------------------- *)
\* faulty variant: the echo is withheld from every connection of the sending user
NotOwnEchoByUser(s, ev) == sender_username(s) # ev.sender

\* lines 437 / 451: self.channel_name != event['sender_channel_name']
NotOwnEcho(s, ev) == s # ev.sender_channel_name

\* whether the handler of the event's type sends a frame down the socket of s
Sends(s, ev) ==
    IF ev.type \in {"new_text_message", "new_file_message"} THEN NotOwnEcho(s, ev) ELSE TRUE

\* lines 405-498: the frame the handler of the event's type sends
out_frame(ev) ==
    CASE ev.type = "new_text_message" ->
           [msg_type |-> TextMessage, random_id |-> ev.random_id, text |-> ev.text,
            sender |-> ev.sender, receiver |-> ev.receiver]
      [] ev.type = "new_file_message" ->
           [msg_type |-> FileMessage, db_id |-> ev.db_id, file |-> ev.file,
            sender |-> ev.sender, receiver |-> ev.receiver]
      [] ev.type = "message_id_created" ->
           [msg_type |-> MessageIdCreated, random_id |-> ev.random_id, db_id |-> ev.db_id]
      [] ev.type = "new_unread_count" ->
           [msg_type |-> NewUnreadCount, sender |-> ev.sender, unread_count |-> ev.unread_count]
      [] ev.type = "message_read" ->
           [msg_type |-> MessageRead, message_id |-> ev.message_id, sender |-> ev.sender,
            receiver |-> ev.receiver]
      [] ev.type = "is_typing" -> [msg_type |-> IsTyping, user_pk |-> ev.user_pk]
      [] ev.type = "stopped_typing" -> [msg_type |-> TypingStopped, user_pk |-> ev.user_pk]
      [] ev.type = "user_went_online" -> [msg_type |-> WentOnline, user_pk |-> ev.user_pk]
      [] OTHER -> [msg_type |-> WentOffline, user_pk |-> ev.user_pk]

\* the consumer dispatches the next event of its channel to the handler of its type
Deliver(s) ==
    /\ pc[s] = "idle"
    /\ sess[s] = "Connected"
    /\ nread[s] < Len(inbox[s])
    /\ LET ev == inbox[s][nread[s] + 1]
       IN  outbox' = [outbox EXCEPT ![s] = IF Sends(s, ev) THEN Append(@, out_frame(ev))
                                                            ELSE @]
    /\ nread' = [nread EXCEPT ![s] = @ + 1]
    /\ UNCHANGED <<conn_vars, pc, frame, loc, result, bus_vars, effects, store_vars, nframes>>

(* --------------------------- specification ----------------------------- *)
\* The state after connect() has returned for the connections of order, one
\* after the other, on tables that hold msgs and dlgs (lines 149-161): each has
\* joined the group of its user and has sent went-online to the groups of its
\* dialog partners, where the connections that came before it were listening.
Ascending(S) ==
    LET RECURSIVE Asc(_)
        Asc(T) == IF T = {} THEN <<>>
                  ELSE LET m == CHOOSE x \in T : \A y \in T : x <= y
                       IN  <<m>> \o Asc(T \ {m})
    IN  Asc(S)

\* the users whose groups connect() of user u sends went-online to
OnlineTargets(dlgs, u) ==
    {d \in get_groups_to_add(dlgs, u) : OnlineTarget(d, ToStr(u))}

\* the went-online events the connections of the sequence ss send to the group of d
OnlineEvents(ss, dlgs, d) ==
    LET from == SelectSeq(ss, LAMBDA s : d \in OnlineTargets(dlgs, ScopeUser[s]))
    IN  [i \in 1..Len(from) |-> user_event("user_went_online", Username[ScopeUser[from[i]]])]

Connected(order, msgs, dlgs) ==
    LET S == {order[i] : i \in 1..Len(order)}
        at(s) == CHOOSE i \in 1..Len(order) : order[i] = s
    IN
    /\ sess = [s \in Sessions |-> IF s \in S THEN "Connected" ELSE "Unauthenticated"]
    /\ user = [s \in Sessions |-> IF s \in S THEN ScopeUser[s] ELSE NoUser]
    /\ close_code = [s \in Sessions |-> 0]
    /\ pc = [s \in Sessions |-> IF s \in S THEN "idle" ELSE "off"]
    /\ frame = [s \in Sessions |-> NoFrame]
    /\ loc = [s \in Sessions |-> NoLoc]
    /\ result = [s \in Sessions |-> Ok]
    /\ groups = [g \in Groups |-> {s \in S : ToStr(ScopeUser[s]) = g}]
    /\ inbox = [s \in Sessions |->
                   IF s \in S
                   THEN OnlineEvents(SubSeq(order, at(s) + 1, Len(order)), dlgs, ScopeUser[s])
                   ELSE <<>>]
    /\ nread = [s \in Sessions |-> 0]
    /\ outbox = [s \in Sessions |-> <<>>]
    /\ published = [g \in Groups |->
                       LET evs == OnlineEvents(order, dlgs,
                                               CHOOSE d \in Users : ToStr(d) = g)
                       IN  [i \in 1..Len(evs) |-> [ev |-> evs[i], fid |-> 0]]]
    /\ effects = [s \in Sessions |->
                     IF s \in S
                     THEN LET ds == Ascending(OnlineTargets(dlgs, ScopeUser[s]))
                          IN  [i \in 1..Len(ds) |->
                                 [op |-> "publish", to |-> ToStr(ds[i]),
                                  what |-> "user_went_online"]]
                     ELSE <<>>]
    /\ messages = msgs
    /\ dialogs = dlgs
    /\ nframes = 0

\* the awaits of the handlers of frames
HandleText(s) ==
    TextLookupUser(s) \/ TextPublishRecipient(s) \/ TextPublishSelf(s) \/ TextSave(s)

HandleAfterSave(s) ==
    \/ AfterSaveIdRecipient(s) \/ AfterSaveIdSelf(s) \/ AfterSaveCount(s)
    \/ AfterSavePublishCount(s)

HandleFile(s) ==
    \/ FileLookup(s) \/ FileLookupUser(s)
    \/ FileSave(s) \/ FilePublishRecipient(s) \/ FilePublishSelf(s)

HandleRead(s) ==
    \/ ReadLookupUser(s)
    \/ ReadNotify(s) \/ ReadLookup(s) \/ ReadMark(s) \/ ReadCount(s)
    \/ ReadPublishCount(s)

\* the handler of a receipt with the send of its error by receive()
HandleReceipt(s) == HandleRead(s) \/ SendError(s)

Handle(s) ==
    \/ HandleText(s) \/ HandleAfterSave(s) \/ HandleFile(s) \/ HandleRead(s)
    \/ SendError(s)

\* the awaits of the handlers of typing signals
HandleTyping(s) ==
    TypingLookupUser(s) \/ TypingPublish(s) \/ TypingDialogs(s) \/ TypingLoop(s)

\* connect() and disconnect()
Lifecycle(s) ==
    \/ Connect(s) \/ ConnectGroupAdd(s) \/ ConnectAccept(s) \/ ConnectDialogs(s)
    \/ ConnectLoop(s)
    \/ Disconnect(s) \/ DisconnectDiscard(s) \/ DisconnectDialogs(s) \/ DisconnectLoop(s)

Init == Connected(<<"s1", "s3">>, <<>>, {})

Next == \E s \in Sessions : Handle(s) \/ Receive(s, CoreFrames, MaxFrames)

Spec == Init /\ [][Next]_vars

\* Validation scenario: one connected user (alice or bob), a message table that
\* already holds some rows, and any frame of AllFrames.
SeedRows ==
    <<Row(Pid(1), 1, 2, "a", "", JInt(-1)), Row(Pid(2), 2, 1, "a", "", JInt(-1)),
      Row(Pid(3), 3, 2, "a", "", JInt(-1)), Row(Pid(4), 1, 2, "", "f1", JAbsent)>>

SeedDialogs(n) == {<<SeedRows[i].sender, SeedRows[i].recipient>> : i \in 1..n}
                     \ {<<2, 1>>}

InitV ==
    \E c \in {"s1", "s3"}, n \in 0..MaxSeed :
        Connected(<<c>>, SubSeq(SeedRows, 1, n), SeedDialogs(n))

NextV == \E s \in Sessions : Handle(s) \/ HandleTyping(s) \/ Receive(s, AllFrames, MaxFramesV)

SpecV == InitV /\ [][NextV]_vars

\* Read-receipt scenario: alice sends texts to bob; bob sends one receipt naming
\* alice for each message whose id-assignment event his group has been sent.
TextToBob == Frame(JInt(TextMessage), JName("bob"), TextOfLen(1), JInt(-1), JAbsent, JAbsent)

ReceiptForAlice(pid) ==
    Frame(JInt(MessageRead), JName("alice"), JAbsent, JAbsent, JAbsent, JStr(pid, 2))

\* the pids bob's client has learned and has not yet acknowledged
PidsToAcknowledge ==
    {published["2"][i].ev.db_id :
        i \in {j \in DOMAIN published["2"] : published["2"][j].ev.type = "message_id_created"}}
    \ {published["1"][i].ev.message_id :
        i \in {j \in DOMAIN published["1"] : published["1"][j].ev.type = "message_read"}}

InitSeq == Connected(<<"s1", "s3">>, <<>>, {})

NextSeq ==
    \/ /\ Cardinality({i \in DOMAIN published["2"] :
                          published["2"][i].ev.type = "new_text_message"}) < MaxN
       /\ Receive("s1", {TextToBob}, 2 * MaxN)
    \/ Receive("s3", {ReceiptForAlice(p) : p \in PidsToAcknowledge}, 2 * MaxN)
    \/ \E s \in Sessions : HandleText(s) \/ HandleAfterSave(s) \/ HandleRead(s)

SpecSeq == InitSeq /\ [][NextSeq]_vars

\* Delivery scenario: two connections of alice and one of bob, the consumers
\* dispatching the events of their channels, and texts and files sent from alice's
\* first connection and from bob's.
DeliveryFrames ==
    {Frame(JInt(TextMessage), JName(n), TextOfLen(1), JInt(-1), JAbsent, JAbsent) :
        n \in {"alice", "bob"}}
    \cup {Frame(JInt(FileMessage), JName(n), JAbsent, JInt(-1), JStr("f1", 2), JAbsent) :
        n \in {"alice", "bob"}}

InitD == Connected(<<"s1", "s2", "s3">>, <<>>, {})

NextD ==
    \/ \E s \in Sessions : HandleText(s) \/ HandleAfterSave(s) \/ HandleFile(s) \/ Deliver(s)
    \/ \E s \in {"s1", "s3"} : Receive(s, DeliveryFrames, MaxFramesD)

SpecD == InitD /\ [][NextD]_vars

\* Presence scenario: no connection is open yet; alice's two connections and an
\* anonymous one connect and disconnect, each once, with any close code.
InitL ==
    /\ sess = [s \in Sessions |-> "Unauthenticated"]
    /\ user = [s \in Sessions |-> NoUser]
    /\ close_code = [s \in Sessions |-> 0]
    /\ pc = [s \in Sessions |-> "new"]
    /\ frame = [s \in Sessions |-> NoFrame]
    /\ loc = [s \in Sessions |-> NoLoc]
    /\ result = [s \in Sessions |-> Ok]
    /\ groups = [g \in Groups |-> {}]
    /\ inbox = [s \in Sessions |-> <<>>]
    /\ nread = [s \in Sessions |-> 0]
    /\ outbox = [s \in Sessions |-> <<>>]
    /\ published = [g \in Groups |-> <<>>]
    /\ effects = [s \in Sessions |-> <<>>]
    /\ messages = <<>>
    /\ \E n \in 0..MaxSeed : dialogs = SeedDialogs(n)
    /\ nframes = 0

NextL == \E s \in {"s1", "s2", "s4"} : Lifecycle(s)

SpecL == InitL /\ [][NextL]_vars

\* Receipt scenario: the table holds some rows; alice and bob connect, their
\* connect() calls overlapping in any way, the consumers dispatch the events of
\* their channels, and the clients send read receipts with well-formed fields
\* for rows that exist or not.
ReceiptFrames ==
    {Frame(JInt(MessageRead), JName(n), JAbsent, JAbsent, JAbsent, JStr(Pid(k), 2)) :
        n \in {"alice", "bob", "carol"}, k \in 1..(MaxSeed + 1)}

InitR ==
    /\ sess = [s \in Sessions |-> "Unauthenticated"]
    /\ user = [s \in Sessions |-> NoUser]
    /\ close_code = [s \in Sessions |-> 0]
    /\ pc = [s \in Sessions |-> IF s \in {"s1", "s3"} THEN "new" ELSE "off"]
    /\ frame = [s \in Sessions |-> NoFrame]
    /\ loc = [s \in Sessions |-> NoLoc]
    /\ result = [s \in Sessions |-> Ok]
    /\ groups = [g \in Groups |-> {}]
    /\ inbox = [s \in Sessions |-> <<>>]
    /\ nread = [s \in Sessions |-> 0]
    /\ outbox = [s \in Sessions |-> <<>>]
    /\ published = [g \in Groups |-> <<>>]
    /\ effects = [s \in Sessions |-> <<>>]
    /\ \E n \in 0..MaxSeed : messages = SubSeq(SeedRows, 1, n) /\ dialogs = SeedDialogs(n)
    /\ nframes = 0

\* the awaits of connect()
HandleConnect(s) ==
    \/ Connect(s) \/ ConnectGroupAdd(s) \/ ConnectAccept(s) \/ ConnectDialogs(s)
    \/ ConnectLoop(s)

NextR ==
    \E s \in Sessions :
       \/ HandleConnect(s)
       \/ HandleReceipt(s) \/ Deliver(s) \/ Receive(s, ReceiptFrames, MaxFramesR)

SpecR == InitR /\ [][NextR]_vars

\* In-flight scenario: alice and bob are connected; alice sends texts to bob, to
\* herself or to nobody over one connection, whose socket may close while a handler is
\* running.  The event loop resumes every handler whose await has completed, so
\* the steps of a handler are weakly fair.
TextSendFrames ==
    {Frame(JInt(TextMessage), JName(n), TextOfLen(1), JInt(-1), JAbsent, JAbsent) :
        n \in {"alice", "bob", "nobody"}}

InitF == Connected(<<"s1", "s3">>, <<>>, {})

RunsToCompletion(s) == HandleText(s) \/ HandleAfterSave(s)

NextF ==
    \/ RunsToCompletion("s1")
    \/ Receive("s1", TextSendFrames, MaxFramesF) \/ SendError("s1")
    \/ PeerCloses("s1") \/ DisconnectQueued("s1")
    \/ DisconnectDiscard("s1") \/ DisconnectDialogs("s1") \/ DisconnectLoop("s1")

SpecF == InitF /\ [][NextF]_vars /\ WF_vars(RunsToCompletion("s1"))

(* ======================================================================= *)
(*                               properties                                *)
(* ======================================================================= *)
\* the handler of the last frame of s has returned
Returned(s) == pc[s] = "idle" /\ frame[s] # NoFrame

\* the last frame of s was accepted and is of kind k
Accepted(s, k) == Kind(frame[s]) = k /\ result[s] = Ok /\ loc[s].error = Ok

\* the row with this pid holds a text (not a file)
IsTextPid(pid) == \E i \in DOMAIN messages : messages[i].pid = pid /\ messages[i].file = ""

\* positions of the group's event sequence that hold an event of this type
Positions(g, type) == {i \in DOMAIN published[g] : published[g][i].ev.type = type}

PublishEffect(g, type) == [op |-> "publish", to |-> g, what |-> type]
SaveEffect(pid) == [op |-> "save", to |-> "", what |-> pid]
IsPrefix(a, b) == Len(a) <= Len(b) /\ a = SubSeq(b, 1, Len(a))

\* C1: in the event sequence of every group, the id-assignment event of a text
\* message (the event that carries its pid) comes after the delivery event of the
\* same frame, which carries the same randomId; and once the handler of an accepted
\* text frame has returned, the recipient's group and the sender's group both hold
\* the id-assignment event of its message.
C1_DeliveryBeforeIdCreated ==
    /\ \A g \in Groups : \A j \in Positions(g, "message_id_created") :
         IsTextPid(published[g][j].ev.db_id) =>
            \E i \in Positions(g, "new_text_message") :
               /\ i < j
               /\ published[g][i].fid = published[g][j].fid
               /\ published[g][i].ev.random_id = published[g][j].ev.random_id
    /\ \A s \in Sessions : (Returned(s) /\ Accepted(s, TextMessage)) =>
         \A g \in {group_name(s), ToStr(loc[s].recipient)} :
            \E j \in Positions(g, "message_id_created") :
               /\ published[g][j].fid = loc[s].fid
               /\ published[g][j].ev =
                     message_id_created_event(frame[s].random_id, loc[s].msg)

\* a group whose sequence holds, between the delivery event and the id-assignment
\* event of one text frame, an event of another frame
C1_Witness ==
    \E g \in Groups : \E i, k, j \in DOMAIN published[g] :
       /\ i < k /\ k < j
       /\ published[g][i].ev.type = "new_text_message"
       /\ published[g][j].ev.type = "message_id_created"
       /\ published[g][i].fid = published[g][j].fid
       /\ published[g][k].fid # published[g][i].fid
       /\ IsTextPid(published[g][j].ev.db_id)

\* the side effects of the handler of an accepted TextMessage, in order
TextEffects(s) ==
    <<PublishEffect(ToStr(loc[s].recipient), "new_text_message"),
      PublishEffect(group_name(s), "new_text_message"),
      SaveEffect(loc[s].msg),
      PublishEffect(ToStr(loc[s].recipient), "message_id_created"),
      PublishEffect(group_name(s), "message_id_created"),
      PublishEffect(ToStr(loc[s].recipient), "new_unread_count")>>

\* C2: the side effects of the handler of an accepted TextMessage are, in this
\* order: delivery event to the recipient's group, delivery event to the sender's
\* group, the row is created, id-assignment event to the recipient's group and to
\* the sender's group, unread count to the recipient's group.  Until both
\* delivery events are published the row does not exist, and the count that is
\* published was read after the id-assignment events.
C2_TextOrder ==
    \A s \in Sessions : Accepted(s, TextMessage) =>
       /\ IsPrefix(effects[s], TextEffects(s))
       /\ Returned(s) => effects[s] = TextEffects(s)
       /\ Len(effects[s]) < 2 => loc[s].msg = NoMsg
       /\ loc[s].msg # NoMsg <=> \E i \in DOMAIN effects[s] : effects[s][i].op = "save"
       /\ loc[s].msg # NoMsg => \E i \in DOMAIN messages : messages[i].pid = loc[s].msg
       /\ pc[s] = "a_pub_count" => Len(effects[s]) = 5

\* a text handler has returned while the other connection's handler is under way
C2_Witness ==
    \E s, t \in Sessions :
       /\ s # t
       /\ Returned(s) /\ Accepted(s, TextMessage)
       /\ effects[s] = TextEffects(s)
       /\ pc[t] # "idle" /\ effects[t] # <<>>

\* the side effects of the handler of an accepted FileMessage, in order
FileEffects(s) ==
    <<SaveEffect(loc[s].msg),
      PublishEffect(ToStr(loc[s].recipient), "message_id_created"),
      PublishEffect(group_name(s), "message_id_created"),
      PublishEffect(ToStr(loc[s].recipient), "new_unread_count"),
      PublishEffect(ToStr(loc[s].recipient), "new_file_message"),
      PublishEffect(group_name(s), "new_file_message")>>

\* C3 as claimed: the handler of an accepted FileMessage creates the row, publishes
\* the delivery event to the recipient's and the sender's group, then the unread
\* count to the recipient's group, and publishes nothing else.
C3_Original ==
    \A s \in Sessions : (Returned(s) /\ Accepted(s, FileMessage)) =>
       effects[s] = <<SaveEffect(loc[s].msg),
                      PublishEffect(ToStr(loc[s].recipient), "new_file_message"),
                      PublishEffect(group_name(s), "new_file_message"),
                      PublishEffect(ToStr(loc[s].recipient), "new_unread_count")>>

\* C3 (amended): the handler of an accepted FileMessage creates the row, then
\* publishes the id-assignment event to the recipient's group and to the sender's
\* group, then the unread count to the recipient's group, and only then the single
\* delivery event (with the pid) to the recipient's group and to the sender's
\* group; in the recipient's group the unread count of the frame precedes its
\* delivery event.
C3_FileOrder ==
    /\ \A s \in Sessions : Accepted(s, FileMessage) =>
         /\ IsPrefix(effects[s], FileEffects(s))
         /\ Returned(s) => effects[s] = FileEffects(s)
    /\ \A g \in Groups : \A j \in Positions(g, "new_file_message") :
         /\ \E i \in DOMAIN messages : messages[i].pid = published[g][j].ev.db_id
         /\ g = ToStr(get_user_by_username(published[g][j].ev.receiver)) =>
              \E i \in Positions(g, "new_unread_count") :
                  i < j /\ published[g][i].fid = published[g][j].fid

\* a file handler has returned; its recipient's group holds the unread count and
\* then the delivery event of the frame
C3_Witness ==
    \E s \in Sessions :
       /\ Returned(s) /\ Accepted(s, FileMessage)
       /\ effects[s] = FileEffects(s)
       /\ \E i, j \in DOMAIN published[ToStr(loc[s].recipient)] :
            /\ i < j
            /\ published[ToStr(loc[s].recipient)][i].ev.type = "new_unread_count"
            /\ published[ToStr(loc[s].recipient)][j].ev.type = "new_file_message"
            /\ published[ToStr(loc[s].recipient)][j].ev.db_id = loc[s].msg


\* the fields a handler checks before random_id are well-formed
FieldsBeforeRandomIdValid(f) ==
    /\ Has(f.random_id)
    /\ IsStr(f.user_pk)
    /\ Kind(f) = TextMessage => IsStr(f.text) /\ f.text.len \in 1..TEXT_MAX_LENGTH
    /\ Kind(f) = FileMessage => IsStr(f.file_id) /\ f.file_id.len > 0

\* the last frame of s was rejected with this error: the handler has returned, one
\* error frame with the code is the last frame sent, and the handler did nothing
\* to the bus or the store
RejectedWith(s, code) ==
    /\ result[s] = code
    /\ pc[s] = "idle"
    /\ effects[s] = <<>>
    /\ outbox[s] # <<>> /\ outbox[s][Len(outbox[s])] = error_frame(code)

\* file_id names a row of UploadedFile
FileExists(f) == IsStr(f.file_id) /\ f.file_id.s \in Files

\* C4: a FileMessage whose file_id names no stored file is rejected: nothing is
\* published and no row is created for it; when its fields are otherwise
\* well-formed the error is FileDoesNotExist, whether or not the target user exists.
C4_MissingFile ==
    \A s \in Sessions : (Kind(frame[s]) = FileMessage /\ ~FileExists(frame[s])) =>
       /\ effects[s] = <<>>
       /\ pc[s] \in {"idle", "f_file", "send_error"}
       /\ Returned(s) =>
             /\ result[s] \notin {Ok, Raised}
             /\ RejectedWith(s, result[s])
             /\ (FieldsBeforeRandomIdValid(frame[s]) /\ RandomIdError(frame[s].random_id) = Ok)
                   => result[s] = FileDoesNotExist

\* a file frame for a missing file and a user that does not exist either was
\* answered with FileDoesNotExist
C4_Witness ==
    \E s \in Sessions :
       /\ Kind(frame[s]) = FileMessage
       /\ frame[s].file_id = JStr("f9", 2)
       /\ frame[s].user_pk = JName("nobody")
       /\ RejectedWith(s, FileDoesNotExist)

\* C5 as claimed: a TextMessage or FileMessage whose random_id is an integer >= 0
\* (its other fields being well-formed) is rejected with InvalidRandomId and
\* nothing is published or stored for it.
C5_Claim ==
    \A s \in Sessions :
       ( /\ Kind(frame[s]) \in {TextMessage, FileMessage}
         /\ FieldsBeforeRandomIdValid(frame[s])
         /\ frame[s].random_id.t = "int" /\ frame[s].random_id.n >= 0 )
       => RejectedWith(s, InvalidRandomId)

\* random_id holds a JSON value that is no integer and no boolean
NonIntRandomId(f) == f.random_id.t \in {"str", "float", "null"}

\* C6 as claimed: a TextMessage or FileMessage whose random_id is present and no
\* integer is rejected with MessageParsingError.
C6_Original ==
    \A s \in Sessions :
       ( /\ Kind(frame[s]) \in {TextMessage, FileMessage}
         /\ FieldsBeforeRandomIdValid(frame[s])
         /\ NonIntRandomId(frame[s]) )
       => result[s] = MessageParsingError

\* C6 (amended): a TextMessage or FileMessage whose random_id is present and is
\* neither an integer nor a boolean, the fields checked before it being
\* well-formed, is rejected with InvalidRandomId (code 5).
C6_NonIntRandomId ==
    \A s \in Sessions :
       ( /\ Kind(frame[s]) \in {TextMessage, FileMessage}
         /\ FieldsBeforeRandomIdValid(frame[s])
         /\ NonIntRandomId(frame[s]) )
       => RejectedWith(s, InvalidRandomId) /\ InvalidRandomId = 5

\* a text frame with a string for random_id was answered with InvalidRandomId
C6_Witness ==
    \E s \in Sessions :
       /\ Kind(frame[s]) = TextMessage
       /\ frame[s].random_id = JStr("-1", 2)
       /\ FieldsBeforeRandomIdValid(frame[s])
       /\ RejectedWith(s, InvalidRandomId)

\* C7: a MessageRead whose user_pk is the username of the connection's own user is
\* rejected with an error, whether or not the row it names exists: no event is
\* published and no row is marked read.
C7_ReadSelfRejected ==
    \A s \in Sessions :
       ( /\ Kind(frame[s]) = MessageRead
         /\ IsStr(frame[s].user_pk) /\ frame[s].user_pk.s = sender_username(s) )
       => /\ result[s] \notin {Ok, Raised}
          /\ RejectedWith(s, result[s])

\* bob sent a receipt with himself as target for a row that exists and is
\* addressed to him; it was rejected and the row is still unread
C7_Witness ==
    \E s \in Sessions :
       /\ user[s] = 2
       /\ Kind(frame[s]) = MessageRead
       /\ frame[s].user_pk = JName("bob")
       /\ frame[s].message_id = JStr(Pid(1), 2)
       /\ RejectedWith(s, InvalidUserPk)
       /\ Len(messages) >= 1 /\ messages[1].recipient = 2 /\ ~messages[1].read

\* the row the receipt of s names exists, is addressed to the user of s and was
\* sent by the user the receipt names
ReceiptMatches(s) ==
    \E i \in DOMAIN messages :
       /\ messages[i].pid = frame[s].message_id.s
       /\ messages[i].recipient = user[s]
       /\ Username[messages[i].sender] = frame[s].user_pk.s

\* C8 as claimed: a MessageRead that passes the checks of its fields and of its
\* target user is accepted exactly when the row it names has the connection's
\* user as recipient and the named user as sender; otherwise (no such row, or
\* other parties, also when the connection's user is the sender of the row) its
\* handler ends with InvalidMessageReadId sent as an error frame, and no row is
\* marked read.
C8_Claim ==
    \A s \in Sessions :
       ( /\ Kind(frame[s]) = MessageRead
         /\ Validate(frame[s], sender_username(s)) = Ok
         /\ pc[s] \in {"idle", "crashed"} )
       => /\ result[s] = (IF ReceiptMatches(s) THEN Ok ELSE InvalidMessageReadId)
          /\ ~ReceiptMatches(s) =>
                /\ \A i \in DOMAIN effects[s] : effects[s][i].op # "mark_read"
                /\ outbox[s] # <<>>
                /\ outbox[s][Len(outbox[s])] = error_frame(InvalidMessageReadId)
          /\ ReceiptMatches(s) =>
                \E i \in DOMAIN messages :
                   messages[i].pid = frame[s].message_id.s /\ messages[i].read


\* no handler is running
AllReturned == \A s \in Sessions : pc[s] \in {"idle", "off"}

\* the pids named by receipts that were accepted: the receipt's notification went
\* to alice's group and its handler went on to publish an unread count to bob's
AcknowledgedPids ==
    {published["1"][i].ev.message_id :
        i \in {k \in Positions("1", "message_read") :
                 \E j \in Positions("2", "new_unread_count") :
                    published["2"][j].fid = published["1"][k].fid}}

\* alice has sent n texts to bob and bob has then sent one receipt for each of
\* them, all of them accepted, and nothing else was sent
ReadAll(n) ==
    /\ AllReturned
    /\ Len(messages) = n
    /\ \A i \in DOMAIN messages : messages[i].sender = 1 /\ messages[i].recipient = 2
    /\ Cardinality(Positions("1", "message_read")) = n
    /\ AcknowledgedPids = {messages[i].pid : i \in DOMAIN messages}

\* C9 as claimed: after n texts from alice to bob and bob's n receipts, the unread
\* count of the direction alice-to-bob is 0 and bob's group was sent exactly n
\* NewUnreadCount events.
C9_Original ==
    \A n \in 1..MaxN : ReadAll(n) =>
       /\ get_unread_count(messages, "1", "2") = 0
       /\ Cardinality(Positions("2", "new_unread_count")) = n

\* C9 (amended): after n texts from alice to bob and bob's n receipts, the unread
\* count of the direction alice-to-bob is 0 and bob's group was sent exactly 2n
\* NewUnreadCount events: one by the handler of each text and one by the handler
\* of each receipt.
C9_UnreadEvents ==
    \A n \in 1..MaxN : ReadAll(n) =>
       /\ get_unread_count(messages, "1", "2") = 0
       /\ Cardinality(Positions("2", "new_unread_count")) = 2 * n
       /\ Cardinality({j \in Positions("2", "new_unread_count") :
                          published["2"][j].ev.sender = "alice"}) = 2 * n

\* two texts were sent and both were acknowledged
C9_Witness ==
    /\ ReadAll(2)
    /\ \A i \in DOMAIN messages : messages[i].read
    /\ Cardinality(Positions("2", "new_unread_count")) = 4

\* the delivery events among the events a consumer has dispatched
IsDelivery(ev) == ev.type \in {"new_text_message", "new_file_message"}

\* the delivery event the handler of the last frame of s publishes
DeliveryEvent(s) ==
    IF Kind(frame[s]) = TextMessage
    THEN text_message_event(s, frame[s], sender_username(s))
    ELSE file_message_event(s, frame[s], sender_username(s), loc[s].msg)

DeliveryFramesSent(t) ==
    {i \in DOMAIN outbox[t] : outbox[t][i].msg_type \in {TextMessage, FileMessage}}

\* C10: a consumer sends a delivery frame down its socket for exactly those
\* dispatched delivery events that another connection originated; so the connection
\* that sent a TextMessage or FileMessage never gets the frame of its own delivery
\* event, and every other connection of the sender's user and of the recipient
\* has been sent the event and gets the frame when it dispatches it.
C10_NoSelfEcho ==
    /\ \A t \in Sessions :
         Cardinality(DeliveryFramesSent(t)) =
            Cardinality({i \in 1..nread[t] : /\ IsDelivery(inbox[t][i])
                                             /\ inbox[t][i].sender_channel_name # t})
    /\ \A s \in Sessions :
         (Returned(s) /\ (Accepted(s, TextMessage) \/ Accepted(s, FileMessage))) =>
            /\ \A i \in DOMAIN outbox[s] : outbox[s][i] # out_frame(DeliveryEvent(s))
            /\ \A t \in Sessions \ {s} :
                 (sess[t] = "Connected" /\ user[t] \in {user[s], loc[s].recipient}) =>
                    /\ \E i \in DOMAIN inbox[t] : inbox[t][i] = DeliveryEvent(s)
                    /\ nread[t] = Len(inbox[t]) =>
                          \E i \in DOMAIN outbox[t] :
                             outbox[t][i] = out_frame(DeliveryEvent(s))

\* alice's first connection sent a text to bob; all three consumers have
\* dispatched their events: alice's second connection and bob's got the frame,
\* the sending connection got none
C10_Witness ==
    /\ Returned("s1") /\ Accepted("s1", TextMessage) /\ loc["s1"].recipient = 2
    /\ \A t \in {"s1", "s2", "s3"} : nread[t] = Len(inbox[t]) /\ nread[t] > 0
    /\ \E i \in DOMAIN inbox["s1"] : inbox["s1"][i] = DeliveryEvent("s1")
    /\ DeliveryFramesSent("s1") = {}
    /\ \A t \in {"s2", "s3"} :
          \E i \in DOMAIN outbox[t] : outbox[t][i] = out_frame(DeliveryEvent("s1"))


\* the groups of the dialog partners of the user of s, its own group left out
Partners(s) == {ToStr(d) : d \in get_groups_to_add(dialogs, user[s])} \ {group_name(s)}

\* the groups the handler of s has published an event of this type to
PublishedTo(s, type) ==
    {effects[s][i].to : i \in {j \in DOMAIN effects[s] : effects[s][j].what = type}}

\* C11: a connecting session joins the group of its user before it publishes
\* anything; when connect() has returned it has published went-online exactly once
\* to every group of the user's dialog partners except the user's own group and
\* nothing else; no group ever holds a went-online event about its own user.
C11_OnlinePresence ==
    /\ \A s \in Sessions :
         /\ pc[s] \in {"new", "c_add"} => effects[s] = <<>>
         /\ pc[s] \in {"c_accept", "c_dialogs", "c_loop", "idle"} =>
               s \in groups[group_name(s)]
         /\ pc[s] = "idle" =>
               /\ PublishedTo(s, "user_went_online") = Partners(s)
               /\ Len(effects[s]) = Cardinality(Partners(s))
    /\ \A u \in Users : \A i \in Positions(ToStr(u), "user_went_online") :
         published[ToStr(u)][i].ev.user_pk # Username[u]

\* both connections of alice, who has a dialog with bob, have completed connect():
\* bob's group was sent went-online twice, alice's group nothing
C11_Witness ==
    /\ pc["s1"] = "idle" /\ pc["s2"] = "idle"
    /\ Partners("s1") = {"2"}
    /\ groups["1"] = {"s1", "s2"}
    /\ Cardinality(Positions("2", "user_went_online")) = 2
    /\ published["1"] = <<>>

\* C12 as claimed: a session that reached Connected and has completed
\* disconnect() with cleanup has published went-offline to the groups connect()
\* publishes went-online to (the dialog partners' groups without the user's own),
\* and no group holds a went-offline event about its own user.
C12_Claim ==
    /\ \A s \in Sessions :
         (pc[s] = "done" /\ DisconnectCleans(close_code[s], user[s])) =>
            PublishedTo(s, "user_went_offline") = Partners(s)
    /\ \A u \in Users : \A i \in Positions(ToStr(u), "user_went_offline") :
         published[ToStr(u)][i].ev.user_pk # Username[u]

\* C13: a connection without a login never becomes Connected, never has a user,
\* is in no group and publishes nothing; once connect() has run it is Closed with
\* close code 4001.
C13_Rejected ==
    \A s \in Sessions : ScopeUser[s] = Anonymous =>
       /\ sess[s] # "Connected"
       /\ user[s] = NoUser
       /\ \A g \in Groups : s \notin groups[g]
       /\ effects[s] = <<>>
       /\ pc[s] \in {"new", "rejected", "done"}
       /\ pc[s] # "new" => sess[s] = "Closed" /\ close_code[s] = AUTH_CLOSE_CODE
       /\ AUTH_CLOSE_CODE = 4001

\* the anonymous connection was rejected and its disconnect() has run, while a
\* connection of alice is open
C13_Witness ==
    /\ pc["s4"] = "done" /\ sess["s4"] = "Closed" /\ close_code["s4"] = AUTH_CLOSE_CODE
    /\ \E s \in Sessions : sess[s] = "Connected" /\ s \in groups["1"]

\* C20 as claimed: when disconnect() has returned, a session that was rejected has
\* published nothing and is in no group, and a session that reached Connected has
\* left the group of its user and has published went-offline to its dialog
\* partners.
C20_Claim ==
    \A s \in Sessions : pc[s] = "done" =>
       IF user[s] = NoUser
       THEN effects[s] = <<>> /\ \A g \in Groups : s \notin groups[g]
       ELSE /\ s \notin groups[group_name(s)]
            /\ Partners(s) \subseteq PublishedTo(s, "user_went_offline")


\* C14 as claimed: a frame that fails parsing or validation is answered with
\* exactly one ErrorOccurred frame, sent to the session of the frame, and the
\* session stays Connected with its handler returned, ready for the next frame.
C14_Claim ==
    \A s \in Sessions : (frame[s] # NoFrame /\ result[s] # Ok) =>
       /\ pc[s] = "idle"
       /\ sess[s] = "Connected"
       /\ outbox[s] # <<>>
       /\ outbox[s][Len(outbox[s])].msg_type = ErrorOccurred

\* the keys of a TextMessage are present and its text is a string
TextIsString(f) ==
    /\ Kind(f) = TextMessage
    /\ Has(f.text) /\ Has(f.user_pk) /\ Has(f.random_id)
    /\ IsStr(f.text)

\* C17: a TextMessage with its keys present whose text is the empty string or a
\* string longer than TEXT_MAX_LENGTH is rejected with TextMessageInvalid; a text
\* of 1 to TEXT_MAX_LENGTH characters is never rejected with TextMessageInvalid,
\* and the frame is accepted when its other fields are valid too.
C17_TextLength ==
    \A s \in Sessions : TextIsString(frame[s]) =>
       /\ (frame[s].text.len = 0 \/ frame[s].text.len > TEXT_MAX_LENGTH) =>
             RejectedWith(s, TextMessageInvalid)
       /\ frame[s].text.len \in 1..TEXT_MAX_LENGTH =>
             /\ result[s] # TextMessageInvalid
             /\ ( /\ IsStr(frame[s].user_pk)
                  /\ get_user_by_username(frame[s].user_pk.s) # NoUser
                  /\ RandomIdError(frame[s].random_id) = Ok ) => result[s] = Ok

\* a text of exactly TEXT_MAX_LENGTH characters was accepted and stored
C17_Witness ==
    \E s \in Sessions :
       /\ TextIsString(frame[s]) /\ frame[s].text.len = TEXT_MAX_LENGTH
       /\ Returned(s) /\ result[s] = Ok
       /\ \E i \in DOMAIN messages :
             messages[i].pid = loc[s].msg /\ messages[i].text = frame[s].text.s


\* C15: in every step the read flag of every row stays set once it is set, and it
\* becomes set only by the mark step of the handler of a MessageRead frame that
\* names the row and was sent on a connection of the row's recipient.
C15_ReadMonotonic ==
    [][\A i \in DOMAIN messages :
          /\ messages[i].read => messages'[i].read
          /\ (~messages[i].read /\ messages'[i].read) =>
                \E s \in Sessions :
                   /\ pc[s] = "r_mark"
                   /\ Kind(frame[s]) = MessageRead
                   /\ frame[s].message_id.s = messages[i].pid
                   /\ user[s] = messages[i].recipient]_vars

\* a row is read, and the connection of its recipient has marked it
C15_Witness ==
    \E i \in DOMAIN messages : \E s \in Sessions :
       /\ messages[i].read
       /\ user[s] = messages[i].recipient
       /\ Returned(s) /\ Accepted(s, MessageRead)
       /\ \E k \in DOMAIN effects[s] :
             effects[s][k] = [op |-> "mark_read", to |-> "", what |-> messages[i].pid]

\* the rows the handler of the last frame of s has created
Saves(s) == {i \in DOMAIN effects[s] : effects[s][i].op = "save"}

\* the frame of s is a TextMessage or FileMessage that was accepted
AcceptedSend(s) == Accepted(s, TextMessage) \/ Accepted(s, FileMessage)

\* C16: the handler of a frame creates at most one row; it has created exactly one,
\* from the connection's user to the named recipient, when it returns from an
\* accepted TextMessage or FileMessage, and none when the frame was rejected or is
\* of another kind; the pids of the rows differ pairwise; a step never removes a
\* row or changes a pid, and it adds at most one row, in the save step of an
\* accepted TextMessage or FileMessage.
C16_OneRowPerSend ==
    /\ [](/\ \A s \in Sessions :
              /\ Cardinality(Saves(s)) <= 1
              /\ (Returned(s) /\ AcceptedSend(s)) =>
                    /\ Cardinality(Saves(s)) = 1
                    /\ \E i \in DOMAIN messages :
                          /\ messages[i].pid = loc[s].msg
                          /\ messages[i].sender = user[s]
                          /\ messages[i].recipient = loc[s].recipient
              /\ (frame[s] # NoFrame /\ ~AcceptedSend(s)) => Saves(s) = {}
           /\ \A i, j \in DOMAIN messages : i # j => messages[i].pid # messages[j].pid)
    /\ [][/\ Len(messages') >= Len(messages)
           /\ \A i \in DOMAIN messages : messages'[i].pid = messages[i].pid
           /\ Len(messages') # Len(messages) =>
                 /\ Len(messages') = Len(messages) + 1
                 /\ \E s \in Sessions : pc[s] \in {"t_save", "f_save"} /\ AcceptedSend(s)]_vars

\* a file message was accepted when the table held rows already: its row is the
\* newest one and no older row has its pid
C16_Witness ==
    \E s \in Sessions :
       /\ Returned(s) /\ Accepted(s, FileMessage)
       /\ Len(messages) >= 2
       /\ messages[Len(messages)].pid = loc[s].msg
       /\ \A i \in 1..(Len(messages) - 1) : messages[i].pid # loc[s].msg


\* the notification the handler of the receipt of s publishes
ReadNotification(s) ==
    message_read_event(frame[s].message_id.s, frame[s].user_pk.s, sender_username(s))

\* C18: a MessageRead that passed the checks of its fields and of its target user
\* publishes the message-read notification to the target's group as its first
\* side effect, before the row is looked up; when the lookup then fails with
\* InvalidMessageReadId the notification is the only thing the handler has
\* published, no row was marked and no unread count of the frame is in any
\* group.  The publish puts the notification on the channel of every connection
\* that is in the target's group at that moment, no later step takes an event
\* back, and a connection that dispatches the notification sends the MessageRead
\* frame.
C18_NotifyBeforeLookup ==
    /\ [](/\ \A s \in Sessions :
              (Kind(frame[s]) = MessageRead /\ Validate(frame[s], sender_username(s)) = Ok) =>
                 LET g == ToStr(loc[s].recipient)
                 IN  /\ pc[s] \in {"r_user", "r_notify"} =>
                           effects[s] = <<>> /\ result[s] = Ok
                     /\ pc[s] \notin {"r_user", "r_notify"} =>
                           /\ effects[s] # <<>>
                           /\ effects[s][1] = PublishEffect(g, "message_read")
                           /\ \E i \in DOMAIN published[g] :
                                 published[g][i] = [ev |-> ReadNotification(s),
                                                    fid |-> loc[s].fid]
                     /\ (Returned(s) /\ result[s] = InvalidMessageReadId) =>
                           /\ effects[s] = <<PublishEffect(g, "message_read")>>
                           /\ \A h \in Groups : \A i \in Positions(h, "new_unread_count") :
                                 published[h][i].fid # loc[s].fid
           /\ \A t \in Sessions : \A i \in 1..nread[t] :
                 inbox[t][i].type = "message_read" =>
                    \E k \in DOMAIN outbox[t] : outbox[t][k] = out_frame(inbox[t][i]))
    /\ [][/\ \A s \in Sessions : (pc[s] = "r_notify" /\ pc'[s] # "r_notify") =>
               \A t \in groups[ToStr(loc[s].recipient)] :
                  inbox'[t] = Append(inbox[t], ReadNotification(s))
          /\ \A t \in Sessions : IsPrefix(inbox[t], inbox'[t])
          /\ \A g \in Groups : IsPrefix(published[g], published'[g])]_vars

\* bob's receipt naming alice was rejected with InvalidMessageReadId, and alice's
\* connection has sent the MessageRead frame of that receipt to her client
C18_Witness ==
    /\ Returned("s3") /\ Kind(frame["s3"]) = MessageRead
    /\ result["s3"] = InvalidMessageReadId
    /\ outbox["s3"] = <<error_frame(InvalidMessageReadId)>>
    /\ outbox["s1"] = <<out_frame(ReadNotification("s3"))>>
    /\ \A i \in DOMAIN messages : ~messages[i].read

\* the awaits of the typing handlers
TypingSteps == {"y_pub", "y_dialogs", "y_loop"}

\* C19: when the handler of an accepted IsTyping or TypingStopped frame returns, it
\* has published typing events of the frame's kind only: with a target exactly
\* one, to the target's group; without a target exactly one to every group of the
\* sender's dialog partners except the sender's own group.  Every event names
\* the sender, and no step of a typing handler changes the store.
C19_Typing ==
    /\ [](\A s \in Sessions :
             (Returned(s) /\ (Accepted(s, IsTyping) \/ Accepted(s, TypingStopped))) =>
                /\ \A i \in DOMAIN effects[s] :
                      /\ effects[s][i].op = "publish"
                      /\ effects[s][i].what = typing_type(frame[s])
                      /\ \E k \in DOMAIN published[effects[s][i].to] :
                            published[effects[s][i].to][k] =
                               [ev |-> user_event(typing_type(frame[s]), sender_username(s)),
                                fid |-> loc[s].fid]
                /\ IF Has(frame[s].user_pk)
                   THEN effects[s] =
                          <<PublishEffect(ToStr(get_user_by_username(frame[s].user_pk.s)),
                                          typing_type(frame[s]))>>
                   ELSE /\ PublishedTo(s, typing_type(frame[s])) = Partners(s)
                        /\ Len(effects[s]) = Cardinality(Partners(s)))
    /\ [][(\E s \in Sessions : pc[s] \in TypingSteps /\ pc'[s] \in TypingSteps \cup {"idle"})
             => UNCHANGED <<messages, dialogs>>]_vars

\* alice, who has a dialog with bob, sent TypingStopped without a target: bob's
\* group was sent the one event, alice's own group none
C19_Witness ==
    \E s \in Sessions :
       /\ user[s] = 1
       /\ Returned(s) /\ Accepted(s, TypingStopped) /\ ~Has(frame[s].user_pk)
       /\ Partners(s) = {"2"}
       /\ effects[s] = <<PublishEffect("2", "stopped_typing")>>
       /\ published["1"] = <<>>


\* the last NewUnreadCount events of a group that name this sender
CountEvents(g, sender) ==
    {i \in Positions(g, "new_unread_count") : published[g][i].ev.sender = sender}

\* C22 as claimed: when no handler is running, the unread count carried by the
\* last NewUnreadCount event of B's group that names sender A is the number of
\* unread rows from A to B in the store.
C22_Claim ==
    AllReturned =>
       \A a, b \in Users :
          LET ev == CountEvents(ToStr(b), Username[a])
          IN  ev # {} =>
                 published[ToStr(b)][CHOOSE i \in ev : \A j \in ev : j <= i].ev.unread_count
                    = get_unread_count(messages, ToStr(a), ToStr(b))

\* C23 as claimed: whenever a session is not inside connect() or disconnect(), it
\* is a member of group g exactly if it is Connected and g is the group of its
\* user; so a session whose disconnect() has returned is in no group.
C23_Claim ==
    \A s \in Sessions : pc[s] \in {"new", "idle", "rejected", "done"} =>
       \A g \in Groups :
          s \in groups[g] <=> (sess[s] = "Connected" /\ ToStr(user[s]) = g)

\* the frame of s is of a kind that carries data
IsDataFrame(f) ==
    Kind(f) \in {IsTyping, TypingStopped, MessageRead, TextMessage, FileMessage}

\* C24: when a frame of kind IsTyping, TypingStopped, MessageRead, TextMessage or
\* FileMessage is rejected with an error other than InvalidMessageReadId, its
\* handler has published no event to any group and has neither created nor
\* marked a row, and the error frame is all it has sent.
C24_RejectedNoEffect ==
    \A s \in Sessions :
       ( /\ IsDataFrame(frame[s])
         /\ result[s] \notin {Ok, Raised, InvalidMessageReadId} ) =>
          /\ RejectedWith(s, result[s])
          /\ \A g \in Groups : \A i \in DOMAIN published[g] :
                published[g][i].fid # loc[s].fid

\* a TextMessage with well-formed fields for a user that does not exist, the last
\* check of the handler, was rejected: nothing is published, no row was added
C24_Witness ==
    \E s \in Sessions :
       /\ Kind(frame[s]) = TextMessage
       /\ frame[s].user_pk = JName("nobody")
       /\ RejectedWith(s, InvalidUserPk)
       /\ \A g \in Groups : published[g] = <<>>
       /\ \A i \in DOMAIN messages : messages[i].recipient # NoUser

\* the delivery frames of the last frame of s among the frames sent to t
OwnDeliveryFrames(s, t) ==
    {i \in DOMAIN outbox[t] : outbox[t][i] = out_frame(DeliveryEvent(s))}

\* C25 as claimed: when the handler of an accepted TextMessage or FileMessage has
\* returned and the consumers have dispatched all their events, every other
\* connection of the sender or of the recipient has sent the delivery frame
\* exactly once.
C25_Claim ==
    \A s \in Sessions : (Returned(s) /\ AcceptedSend(s)) =>
       \A t \in Sessions \ {s} :
          ( /\ sess[t] = "Connected" /\ user[t] \in {user[s], loc[s].recipient}
            /\ nread[t] = Len(inbox[t]) ) =>
             Cardinality(OwnDeliveryFrames(s, t)) = 1


\* the delivery event of the text frame fid is in the sequence of some group
DeliveryPublished(fid) ==
    \E g \in Groups : \E i \in Positions(g, "new_text_message") : published[g][i].fid = fid

\* the id-assignment events of frame fid, each as <<group, position>>
IdEvents(fid) ==
    UNION {{<<g, i>> : i \in {k \in Positions(g, "message_id_created") :
                                published[g][k].fid = fid}} : g \in Groups}

\* the row of frame fid is stored, its id-assignment event is published to both
\* groups of the send and its unread-count event is published
SendCompleted(fid) ==
    /\ \E g \in Groups : \E i \in Positions(g, "new_unread_count") : published[g][i].fid = fid
    /\ Cardinality(IdEvents(fid)) = 2
    /\ \A e \in IdEvents(fid) : IsTextPid(published[e[1]][e[2]].ev.db_id)

\* C21: once the delivery event of an accepted TextMessage is published, the row
\* is eventually stored and the id-assignment and unread-count events of that
\* frame are eventually published, also when the socket of the sender closes
\* before the handler has returned.
C21_RunsToCompletion ==
    \A fid \in 1..MaxFramesF : DeliveryPublished(fid) ~> SendCompleted(fid)

\* the socket of the sender closed while its handler was running (disconnect is
\* still waiting), and the handler has returned with everything done
C21_Witness ==
    \E s \in Sessions :
       /\ sess[s] = "Closed" /\ pc[s] = "idle"
       /\ Accepted(s, TextMessage)
       /\ SendCompleted(loc[s].fid)

=============================================================================
